---------------------------- MODULE Spec2Model ----------------------------
(***************************************************************************)
(* Model of the chat server (src/chat_server.py): the ChatServer registry  *)
(* `clients`, its lock, the accept loop with stop(), and one handler       *)
(* thread per accepted connection running handle_client.                   *)
(*                                                                         *)
(* Text is modelled as a sequence of one-character strings, so that        *)
(* startswith, split, strip, join and the f-strings are computed the way   *)
(* the code computes them.                                                 *)
(***************************************************************************)
EXTENDS Integers, Sequences, FiniteSets, TLC

-----------------------------------------------------------------------------
(* Bounds of the model.                                                    *)

\* connections the listener accepts
NumConns == 3
Conns == 1..NumConns

-----------------------------------------------------------------------------
(* Text: Python str operations used by the server.                         *)

Whitespace == {" ", "\t", "\n", "\r"}

\* str.startswith(prefix)
StartsWith(s, p) == Len(s) >= Len(p) /\ SubSeq(s, 1, Len(p)) = p

\* index of the first ":" of s at or after position i, 0 when there is none
RECURSIVE FindColon(_, _)
FindColon(s, i) ==
    IF i > Len(s) THEN 0
    ELSE IF s[i] = ":" THEN i
    ELSE FindColon(s, i + 1)

\* str.split(":", maxsplit): at most maxsplit cuts, left to right
RECURSIVE Split(_, _)
Split(s, maxsplit) ==
    LET i == FindColon(s, 1)
    IN  IF maxsplit = 0 \/ i = 0 THEN <<s>>
        ELSE <<SubSeq(s, 1, i - 1)>> \o Split(SubSeq(s, i + 1, Len(s)), maxsplit - 1)

RECURSIVE LStrip(_)
LStrip(s) ==
    IF s # <<>> /\ s[1] \in Whitespace THEN LStrip(Tail(s)) ELSE s

RECURSIVE RStrip(_)
RStrip(s) ==
    IF s # <<>> /\ s[Len(s)] \in Whitespace THEN RStrip(SubSeq(s, 1, Len(s) - 1)) ELSE s

\* str.strip()
Strip(s) == RStrip(LStrip(s))

\* ",".join(names)
RECURSIVE Join(_)
Join(names) ==
    IF names = <<>> THEN <<>>
    ELSE IF Len(names) = 1 THEN names[1]
    ELSE names[1] \o <<",">> \o Join(Tail(names))

\* the literals of the protocol
kREGISTER == <<"R","E","G","I","S","T","E","R",":">>
kCHAT == <<"C","H","A","T",":">>
kLIST == <<"L","I","S","T">>
kBROADCAST == <<"B","R","O","A","D","C","A","S","T",":">>
kREGISTERED == <<"R","E","G","I","S","T","E","R","E","D">>
kMESSAGE == <<"M","E","S","S","A","G","E",":">>
kMESSAGE_SENT == <<"M","E","S","S","A","G","E","_","S","E","N","T">>
kSTATUS == <<"S","T","A","T","U","S",":">>
kCLIENT_LIST == <<"C","L","I","E","N","T","_","L","I","S","T",":">>
kNoOtherClients ==
    <<"N","o"," ","o","t","h","e","r"," ","c","l","i","e","n","t","s">>
kNameTaken ==
    <<"E","R","R","O","R",":","N","a","m","e"," ","a","l","r","e","a","d","y",
      " ","t","a","k","e","n">>
kMustRegister ==
    <<"E","R","R","O","R",":","M","u","s","t"," ","r","e","g","i","s","t","e","r",
      " ","f","i","r","s","t">>
kInvalidChat ==
    <<"E","R","R","O","R",":","I","n","v","a","l","i","d"," ","C","H","A","T",
      " ","f","o","r","m","a","t">>
kUnknownCommand ==
    <<"E","R","R","O","R",":","U","n","k","n","o","w","n"," ","c","o","m","m","a","n","d">>
kFailedToSend ==
    <<"E","R","R","O","R",":","F","a","i","l","e","d"," ","t","o"," ","s","e","n","d",
      " ","m","e","s","s","a","g","e">>
kJoined == <<" ","j","o","i","n","e","d"," ","t","h","e"," ","s","e","r","v","e","r">>
kLeft == <<" ","l","e","f","t"," ","t","h","e"," ","s","e","r","v","e","r">>

\* f"ERROR:Client '{target_name}' not found"
NotFoundFrame(target) ==
    <<"E","R","R","O","R",":","C","l","i","e","n","t"," ","'">> \o target
        \o <<"'"," ","n","o","t"," ","f","o","u","n","d">>

\* f"MESSAGE:{sender_name}:{message}"
MessageFrame(sender, content) == kMESSAGE \o sender \o <<":">> \o content

\* f"STATUS:{status_message}"
StatusFrame(text) == kSTATUS \o text

\* f"CLIENT_LIST:{client_list}"
ClientListFrame(list) == kCLIENT_LIST \o list

\* the frames the clients of the model send
fRegA == kREGISTER \o <<"A">>
fRegB == kREGISTER \o <<"B">>
fRegC == kREGISTER \o <<"C">>
fRegBlank == kREGISTER \o <<" ">>
fList == kLIST
fBroadcast == kBROADCAST \o <<"h">>
fChat == kCHAT \o <<"B",":","h",":","i">>
fChatBad == kCHAT \o <<"B">>
fHi == <<"H","I">>

\* the client leaves: the server reads b"" (closed) or an error (reset)
fEOF == <<>>

\* a workload: what each client does, in the order of the accepts, and
\* whether the operator interrupts the server (Ctrl-C) at some moment
Workload(scripts, sigint) == [scripts |-> scripts, sigint |-> sigint]

Workloads ==
    { Workload(<< <<fRegA, fBroadcast>>, <<fRegB, fEOF>>, <<fRegC>> >>, FALSE),
      Workload(<< <<fRegA, fChat>>, <<fRegB>>, <<fRegA>> >>, FALSE),
      Workload(<< <<fRegA, fList, fEOF>>, <<fRegB, fList>>, <<fBroadcast>> >>, FALSE),
      Workload(<< <<fRegBlank, fEOF>>, <<fRegA, fChatBad, fHi>>, <<fEOF>> >>, FALSE),
      Workload(<< <<fRegA, fHi, fList>>, <<fRegB, fRegC, fChat>> >>, FALSE),
      Workload(<< <<fRegA, fChat>>, <<fRegB, fEOF>> >>, FALSE),
      Workload(<< <<fRegA, fBroadcast>>, <<fRegB, fList>> >>, TRUE),
      Workload(<< <<fRegA, fEOF>>, <<fRegA>> >>, TRUE) }

-----------------------------------------------------------------------------
(* State.                                                                  *)

VARIABLES
    mainpc,          \* position of the main thread in start() / stop()
    interrupted,     \* a KeyboardInterrupt is propagating out of start()
    listening,       \* server_socket is open
    clients,         \* self.clients, in insertion order: <<[name, sock]>>
    client_threads,  \* self.client_threads: set of <<name, thread>>
    lock,            \* self.lock: the thread that holds it, or Free
    pc,              \* position of each handler thread in handle_client
    client_name,     \* handle_client's local client_name
    sockOpen,        \* the server has not closed the connection's socket
    peer,            \* the client's end: "open" or "closed"
    out,             \* the frames delivered to each client, in order
    nSent,           \* frames the server has read from each client
    script,          \* what each client does: the frames it writes, in order
    sigint           \* the operator interrupts the server at some moment

vars == <<mainpc, interrupted, listening, clients, client_threads, lock, pc,
          client_name, sockOpen, peer, out, nSent, script, sigint>>

\* threading.Lock() unlocked
Free == 0

\* client_name = None
None == <<"None">>

\* the process has not left main()
Alive == mainpc # "exited"

\* self.clients.keys()
Keys(reg) == {reg[i].name : i \in 1..Len(reg)}

\* self.clients[name]
Sock(reg, name) == reg[CHOOSE i \in 1..Len(reg) : reg[i].name = name].sock

\* self.clients.values()
Socks(reg) == {reg[i].sock : i \in 1..Len(reg)}

\* del self.clients[name]
Del(reg, name) == SelectSeq(reg, LAMBDA e : e.name # name)

\* the truth value of `if client_name:`
Truthy(name) == name # None /\ name # <<>>

\* a write to d reaches the client: the socket is open at both ends
Delivers(d) == sockOpen[d] /\ peer[d] = "open"

\* the results socket.send can have on d: TRUE it returns, FALSE it raises.
\* It raises on a socket the server closed; on a connection the client left it
\* returns (buffered) or raises (broken pipe, reset).
SendOutcomes(d) ==
    IF ~sockOpen[d] THEN {FALSE}
    ELSE IF peer[d] = "open" THEN {TRUE}
    ELSE {TRUE, FALSE}

\* sock.send(frame) on d that did not raise, applied to the delivered frames o
Deliver(o, d, frame) ==
    IF Delivers(d) THEN [o EXCEPT ![d] = Append(@, frame)] ELSE o

\* SendEach whose loop ends after the first entry
SendEachFirst(entries, frame, o) ==
    IF entries = <<>> THEN o ELSE Deliver(o, Head(entries).sock, frame)

\* SendEach whose loop ends at the first write that fails
RECURSIVE SendEachUntilFailure(_, _, _)
SendEachUntilFailure(entries, frame, o) ==
    IF entries = <<>> \/ ~Delivers(Head(entries).sock) THEN o
    ELSE SendEachUntilFailure(Tail(entries), frame,
                              Deliver(o, Head(entries).sock, frame))

\* for ... in entries: try: sock.send(frame) except: pass
RECURSIVE SendEach(_, _, _)
SendEach(entries, frame, o) ==
    IF entries = <<>> THEN o
    ELSE SendEach(Tail(entries), frame, Deliver(o, Head(entries).sock, frame))

\* the results of client_socket.recv(1024) on c: the next frame the client
\* writes, end-of-stream or an exception. A client that left gives b"" (closed)
\* or ConnectionResetError (reset). A recv on a socket another thread closed
\* raises, or, when it was already blocked in the call, still returns what the
\* client writes.
RecvResults(c) ==
    (IF peer[c] = "open" /\ nSent[c] < Len(script[c]) /\ script[c][nSent[c] + 1] # fEOF
     THEN {[kind |-> "data", data |-> script[c][nSent[c] + 1]]} ELSE {})
    \cup (IF peer[c] = "closed"
          THEN {[kind |-> "eof", data |-> <<>>], [kind |-> "raise", data |-> <<>>]}
          ELSE {})
    \cup (IF ~sockOpen[c] THEN {[kind |-> "raise", data |-> <<>>]} ELSE {})

\* the frames recv can return on c
RecvData(c) == {r.data : r \in {x \in RecvResults(c) : x.kind = "data"}}

\* recv can return b"" or raise on c
RecvEnds(c) == \E r \in RecvResults(c) : r.kind # "data"

Init ==
    /\ mainpc = "accept"
    /\ interrupted = FALSE
    /\ listening = TRUE
    /\ clients = <<>>
    /\ client_threads = {}
    /\ lock = Free
    /\ pc = [c \in Conns |-> "idle"]
    /\ client_name = [c \in Conns |-> None]
    /\ sockOpen = [c \in Conns |-> TRUE]
    /\ peer = [c \in Conns |-> "open"]
    /\ out = [c \in Conns |-> <<>>]
    /\ nSent = [c \in Conns |-> 0]
    /\ \E w \in Workloads :
        /\ script = [c \in Conns |-> IF c <= Len(w.scripts) THEN w.scripts[c] ELSE <<>>]
        /\ sigint = w.sigint

-----------------------------------------------------------------------------
(* The clients' side of each connection.                                   *)

\* the client leaves once the server has read what it wrote before: it closes
\* its end or the connection is reset
ClientClose(c) ==
    /\ pc[c] # "idle"
    /\ peer[c] = "open"
    /\ nSent[c] < Len(script[c])
    /\ script[c][nSent[c] + 1] = fEOF
    /\ peer' = [peer EXCEPT ![c] = "closed"]
    /\ UNCHANGED <<mainpc, interrupted, listening, clients, client_threads, lock,
                   pc, client_name, sockOpen, out, nSent, script, sigint>>

-----------------------------------------------------------------------------
(* The main thread: start() and stop().                                    *)

\* server_socket.accept() and the start of the handler thread
Accept(c) ==
    /\ mainpc = "accept"
    /\ pc[c] = "idle"
    /\ \A d \in Conns : d < c => pc[d] # "idle"
    /\ pc' = [pc EXCEPT ![c] = "recv_name"]
    /\ UNCHANGED <<mainpc, interrupted, listening, clients, client_threads, lock,
                   client_name, sockOpen, peer, out, nSent, script, sigint>>

\* KeyboardInterrupt in the accept loop: start()'s finally calls stop()
Interrupt ==
    /\ sigint
    /\ mainpc = "accept"
    /\ mainpc' = "stop"
    /\ interrupted' = TRUE
    /\ UNCHANGED <<listening, clients, client_threads, lock, pc, client_name,
                   sockOpen, peer, out, nSent, script, sigint>>

\* CanAcquire of a lock that excludes no thread
CanAcquireAny(t) == TRUE

\* threading.Lock.acquire: blocks while any thread, the caller included, holds
\* the lock
CanAcquire(t) == lock = Free

\* stop(): the with block: close every registered socket, clear both dicts
Stop ==
    /\ mainpc = "stop"
    /\ CanAcquire(0)
    /\ sockOpen' = [d \in Conns |-> sockOpen[d] /\ d \notin Socks(clients)]
    /\ clients' = <<>>
    /\ client_threads' = {}
    /\ mainpc' = "stop_close"
    /\ UNCHANGED <<interrupted, listening, lock, pc, client_name, peer, out,
                   nSent, script, sigint>>

\* stop(): close the listening socket. The KeyboardInterrupt then reaches
\* main(), which calls stop() once more before sys.exit(0).
StopCloseServer ==
    /\ mainpc = "stop_close"
    /\ listening' = FALSE
    /\ mainpc' = IF interrupted THEN "stop" ELSE "exited"
    /\ interrupted' = FALSE
    /\ UNCHANGED <<clients, client_threads, lock, pc, client_name, sockOpen,
                   peer, out, nSent, script, sigint>>

-----------------------------------------------------------------------------
(* handle_client.  A step of a handler is one recv with the branch it      *)
(* selects; a `with self.lock:` block is entered and left within the step, *)
(* which waits until the lock is free.                                     *)

\* the name the finally clause passes to remove_client
CleanupName(c, name) == name

\* where the handler of c is after `finally: if client_name:`, with
\* client_name = name
Cleanup(c, name) == IF Truthy(CleanupName(c, name)) THEN "rm" ELSE "done"

\* name_message.split(":", 1)[1].strip()
ParseName(name_message) == Strip(Split(name_message, 1)[2])

\* recv returns b"" or raises before any frame: return, client_name is None
RecvNameEnd(c) ==
    /\ Alive
    /\ pc[c] = "recv_name"
    /\ RecvEnds(c)
    /\ pc' = [pc EXCEPT ![c] = Cleanup(c, None)]
    /\ UNCHANGED <<mainpc, interrupted, listening, clients, client_threads, lock,
                   client_name, sockOpen, peer, out, nSent, script, sigint>>

\* MustRegister without client_socket.close()
MustRegisterNoClose(c) ==
    /\ Alive
    /\ pc[c] = "recv_name"
    /\ \E m \in RecvData(c) :
        /\ ~StartsWith(m, kREGISTER)
        /\ \E ok \in SendOutcomes(c) :
            out' = IF ok THEN Deliver(out, c, kMustRegister) ELSE out
    /\ nSent' = [nSent EXCEPT ![c] = @ + 1]
    /\ pc' = [pc EXCEPT ![c] = Cleanup(c, None)]
    /\ UNCHANGED <<mainpc, interrupted, listening, clients, client_threads, lock,
                   client_name, sockOpen, peer, script, sigint>>

\* the first frame is no REGISTER: send ERROR:Must register first, close, return
MustRegister(c) ==
    /\ Alive
    /\ pc[c] = "recv_name"
    /\ \E m \in RecvData(c) :
        /\ ~StartsWith(m, kREGISTER)
        /\ \E ok \in SendOutcomes(c) :
            /\ out' = IF ok THEN Deliver(out, c, kMustRegister) ELSE out
            /\ sockOpen' = IF ok THEN [sockOpen EXCEPT ![c] = FALSE] ELSE sockOpen
    /\ nSent' = [nSent EXCEPT ![c] = @ + 1]
    /\ pc' = [pc EXCEPT ![c] = Cleanup(c, None)]
    /\ UNCHANGED <<mainpc, interrupted, listening, clients, client_threads, lock,
                   client_name, peer, script, sigint>>

\* NameTaken that rejects every name once the registry is not empty
NameTakenAny(name) == clients # <<>>

\* `if client_name in self.clients`
NameTaken(name) == name \in Keys(clients)

\* the first frame is a REGISTER: under the lock, the rejection of a taken name
\* (send, close, return) or the insert
Register(c) ==
    /\ Alive
    /\ pc[c] = "recv_name"
    /\ CanAcquire(c)
    /\ \E m \in RecvData(c) :
        /\ StartsWith(m, kREGISTER)
        /\ client_name' = [client_name EXCEPT ![c] = ParseName(m)]
        /\ IF NameTaken(ParseName(m))
           THEN /\ \E ok \in SendOutcomes(c) :
                    /\ out' = IF ok THEN Deliver(out, c, kNameTaken) ELSE out
                    /\ sockOpen' = IF ok THEN [sockOpen EXCEPT ![c] = FALSE]
                                   ELSE sockOpen
                /\ pc' = [pc EXCEPT ![c] = Cleanup(c, ParseName(m))]
                /\ UNCHANGED <<clients, client_threads>>
           ELSE /\ clients' = Append(clients, [name |-> ParseName(m), sock |-> c])
                /\ client_threads' = client_threads \cup {<<ParseName(m), c>>}
                /\ pc' = [pc EXCEPT ![c] = "send_registered"]
                /\ UNCHANGED <<out, sockOpen>>
    /\ nSent' = [nSent EXCEPT ![c] = @ + 1]
    /\ UNCHANGED <<mainpc, interrupted, listening, lock, peer, script, sigint>>

\* client_socket.send("REGISTERED"), outside the lock
SendRegistered(c) ==
    /\ Alive
    /\ pc[c] = "send_registered"
    /\ \E ok \in SendOutcomes(c) :
        /\ out' = IF ok THEN Deliver(out, c, kREGISTERED) ELSE out
        /\ pc' = [pc EXCEPT ![c] =
                    IF ok THEN "join" ELSE Cleanup(c, client_name[c])]
    /\ UNCHANGED <<mainpc, interrupted, listening, clients, client_threads, lock,
                   client_name, sockOpen, peer, nSent, script, sigint>>

\* the text of the status notice of the handler at position p
StatusText(name, p) == name \o (IF p = "join" THEN kJoined ELSE kLeft)

\* broadcast_status: called after the registration ("join") and by
\* remove_client ("leave"); it takes the lock itself
BroadcastStatus(c) ==
    /\ Alive
    /\ pc[c] \in {"join", "leave"}
    /\ CanAcquire(c)
    /\ out' = SendEach(clients, StatusFrame(StatusText(client_name[c], pc[c])), out)
    /\ pc' = [pc EXCEPT ![c] = IF pc[c] = "join" THEN "recv" ELSE "done"]
    /\ lock' = Free
    /\ UNCHANGED <<mainpc, interrupted, listening, clients, client_threads,
                   client_name, sockOpen, peer, nSent, script, sigint>>

\* Dispatch without the branch for a CHAT frame that has fewer than three parts
DispatchNoArity(m) ==
    IF StartsWith(m, kCHAT) /\ Len(Split(m, 2)) = 3 THEN "chat"
    ELSE IF m = kLIST THEN "list"
    ELSE IF StartsWith(m, kBROADCAST) THEN "broadcast"
    ELSE "unknown"

\* the branch of the loop body a received frame takes
Dispatch(m) ==
    IF StartsWith(m, kCHAT)
    THEN (IF Len(Split(m, 2)) = 3 THEN "chat" ELSE "invalid_chat")
    ELSE IF m = kLIST THEN "list"
    ELSE IF StartsWith(m, kBROADCAST) THEN "broadcast"
    ELSE "unknown"

\* recv in the loop returns b"" (break) or raises
LoopEnd(c) ==
    /\ Alive
    /\ pc[c] = "recv"
    /\ RecvEnds(c)
    /\ pc' = [pc EXCEPT ![c] = Cleanup(c, client_name[c])]
    /\ UNCHANGED <<mainpc, interrupted, listening, clients, client_threads, lock,
                   client_name, sockOpen, peer, out, nSent, script, sigint>>

\* parts[1].strip() of a CHAT frame
ChatTarget(m) == Strip(Split(m, 2)[2])

\* ChatContent of a frame split on every separator
ChatContentSplitAll(m) == Split(m, -1)[3]

\* parts[2] of a CHAT frame
ChatContent(m) == Split(m, 2)[3]

\* SendMessageOut without the MESSAGE_SENT acknowledgment
SendMessageOutNoAck(sender, target, content, ok) ==
    IF target \notin Keys(clients)
    THEN (IF sender \in Keys(clients)
          THEN Deliver(out, Sock(clients, sender), NotFoundFrame(target))
          ELSE out)
    ELSE LET o1 == IF ok
                   THEN Deliver(out, Sock(clients, target), MessageFrame(sender, content))
                   ELSE out
         IN  IF sender \in Keys(clients) /\ ~ok
             THEN Deliver(o1, Sock(clients, sender), kFailedToSend)
             ELSE o1

\* SendMessageOut that answers nothing when the target is not registered
SendMessageOutSilent(sender, target, content, ok) ==
    IF target \notin Keys(clients)
    THEN out
    ELSE LET o1 == IF ok
                   THEN Deliver(out, Sock(clients, target), MessageFrame(sender, content))
                   ELSE out
         IN  IF sender \in Keys(clients)
             THEN Deliver(o1, Sock(clients, sender),
                          IF ok THEN kMESSAGE_SENT ELSE kFailedToSend)
             ELSE o1

\* SendMessageOut that answers nothing when the write to the target fails
SendMessageOutNoError(sender, target, content, ok) ==
    IF target \notin Keys(clients)
    THEN (IF sender \in Keys(clients)
          THEN Deliver(out, Sock(clients, sender), NotFoundFrame(target))
          ELSE out)
    ELSE IF ok
         THEN LET o1 == Deliver(out, Sock(clients, target), MessageFrame(sender, content))
              IN  IF sender \in Keys(clients)
                  THEN Deliver(o1, Sock(clients, sender), kMESSAGE_SENT)
                  ELSE o1
         ELSE out

\* what send_message delivers for sender, target and content, given the result
\* ok of the write to the target
SendMessageOut(sender, target, content, ok) ==
    IF target \notin Keys(clients)
    THEN (IF sender \in Keys(clients)
          THEN Deliver(out, Sock(clients, sender), NotFoundFrame(target))
          ELSE out)
    ELSE LET o1 == IF ok
                   THEN Deliver(out, Sock(clients, target), MessageFrame(sender, content))
                   ELSE out
         IN  IF sender \in Keys(clients)
             THEN Deliver(o1, Sock(clients, sender),
                          IF ok THEN kMESSAGE_SENT ELSE kFailedToSend)
             ELSE o1

\* a CHAT frame with target and message: send_message
Chat(c) ==
    /\ Alive
    /\ pc[c] = "recv"
    /\ CanAcquire(c)
    /\ \E m \in RecvData(c) :
        /\ Dispatch(m) = "chat"
        /\ \E ok \in (IF ChatTarget(m) \in Keys(clients)
                      THEN SendOutcomes(Sock(clients, ChatTarget(m))) ELSE {TRUE}) :
              out' = SendMessageOut(client_name[c], ChatTarget(m), ChatContent(m), ok)
    /\ nSent' = [nSent EXCEPT ![c] = @ + 1]
    /\ UNCHANGED <<mainpc, interrupted, listening, clients, client_threads, lock,
                   pc, client_name, sockOpen, peer, script, sigint>>

\* AvailableClients without the `if name != client_name` filter
AvailableClientsAll(requester) == [i \in 1..Len(clients) |-> clients[i].name]

\* [name for name in self.clients.keys() if name != client_name]
AvailableClients(requester) ==
    LET others == SelectSeq(clients, LAMBDA e : e.name # requester)
    IN  [i \in 1..Len(others) |-> others[i].name]

\* ",".join(available_clients) if available_clients else "No other clients"
ClientList(requester) ==
    IF AvailableClients(requester) # <<>>
    THEN Join(AvailableClients(requester))
    ELSE kNoOtherClients

\* what send_client_list delivers for the requester
SendClientListOut(requester) ==
    IF requester \in Keys(clients)
    THEN Deliver(out, Sock(clients, requester), ClientListFrame(ClientList(requester)))
    ELSE out

\* a LIST frame: send_client_list
List(c) ==
    /\ Alive
    /\ pc[c] = "recv"
    /\ CanAcquire(c)
    /\ \E m \in RecvData(c) :
        /\ Dispatch(m) = "list"
        /\ out' = SendClientListOut(client_name[c])
    /\ nSent' = [nSent EXCEPT ![c] = @ + 1]
    /\ UNCHANGED <<mainpc, interrupted, listening, clients, client_threads, lock,
                   pc, client_name, sockOpen, peer, script, sigint>>

\* message.split(":", 1)[1] of a BROADCAST frame
BroadcastContent(m) == Split(m, 1)[2]

\* BroadcastRecipients without the `if name != sender_name` filter
BroadcastRecipientsAll(sender) == clients

\* the entries broadcast_message writes to: `if name != sender_name`
BroadcastRecipients(sender) == SelectSeq(clients, LAMBDA e : e.name # sender)

\* a BROADCAST frame: broadcast_message
Broadcast(c) ==
    /\ Alive
    /\ pc[c] = "recv"
    /\ CanAcquire(c)
    /\ \E m \in RecvData(c) :
        /\ Dispatch(m) = "broadcast"
        /\ out' = SendEach(BroadcastRecipients(client_name[c]),
                           MessageFrame(client_name[c], BroadcastContent(m)), out)
    /\ nSent' = [nSent EXCEPT ![c] = @ + 1]
    /\ UNCHANGED <<mainpc, interrupted, listening, clients, client_threads, lock,
                   pc, client_name, sockOpen, peer, script, sigint>>

\* an ERROR reply of the loop, written outside the lock; a send that raises
\* ends the loop
ReplyError(c, branch, frame) ==
    /\ Alive
    /\ pc[c] = "recv"
    /\ \E m \in RecvData(c) :
        /\ Dispatch(m) = branch
        /\ \E ok \in SendOutcomes(c) :
            /\ out' = IF ok THEN Deliver(out, c, frame) ELSE out
            /\ pc' = [pc EXCEPT ![c] =
                        IF ok THEN "recv" ELSE Cleanup(c, client_name[c])]
    /\ nSent' = [nSent EXCEPT ![c] = @ + 1]
    /\ UNCHANGED <<mainpc, interrupted, listening, clients, client_threads, lock,
                   client_name, sockOpen, peer, script, sigint>>

\* a CHAT frame with fewer than two separators
InvalidChat(c) == ReplyError(c, "invalid_chat", kInvalidChat)

\* UnknownCommand that takes a REGISTER frame in the loop as a new registration
UnknownCommandRenames(c) ==
    /\ Alive
    /\ pc[c] = "recv"
    /\ \E m \in RecvData(c) :
        /\ Dispatch(m) = "unknown"
        /\ IF StartsWith(m, kREGISTER)
           THEN /\ client_name' = [client_name EXCEPT ![c] = ParseName(m)]
                /\ clients' = Append(Del(clients, client_name[c]),
                                     [name |-> ParseName(m), sock |-> c])
                /\ out' = Deliver(out, c, kREGISTERED)
           ELSE /\ out' = Deliver(out, c, kUnknownCommand)
                /\ UNCHANGED <<client_name, clients>>
    /\ nSent' = [nSent EXCEPT ![c] = @ + 1]
    /\ UNCHANGED <<mainpc, interrupted, listening, client_threads, lock, pc,
                   sockOpen, peer, script, sigint>>

\* any other frame
UnknownCommand(c) == ReplyError(c, "unknown", kUnknownCommand)

\* remove_client, called by the finally clause: under the lock, close the
\* socket registered under the name and delete the entry, then call
\* broadcast_status with the lock still held
RemoveClient(c) ==
    /\ Alive
    /\ pc[c] = "rm"
    /\ CanAcquire(c)
    /\ IF CleanupName(c, client_name[c]) \in Keys(clients)
       THEN /\ sockOpen' = [sockOpen EXCEPT
                              ![Sock(clients, CleanupName(c, client_name[c]))] = FALSE]
            /\ clients' = Del(clients, CleanupName(c, client_name[c]))
            /\ client_threads' =
                  {e \in client_threads : e[1] # CleanupName(c, client_name[c])}
            /\ pc' = [pc EXCEPT ![c] = "leave"]
            /\ lock' = c
       ELSE /\ pc' = [pc EXCEPT ![c] = "done"]
            /\ UNCHANGED <<sockOpen, clients, client_threads, lock>>
    /\ UNCHANGED <<mainpc, interrupted, listening, client_name, peer, out, nSent,
                   script, sigint>>

-----------------------------------------------------------------------------

\* one step of the handler thread of connection c
Handler(c) ==
    \/ RecvNameEnd(c)
    \/ MustRegister(c)
    \/ Register(c)
    \/ SendRegistered(c)
    \/ BroadcastStatus(c)
    \/ LoopEnd(c)
    \/ Chat(c)
    \/ List(c)
    \/ Broadcast(c)
    \/ InvalidChat(c)
    \/ UnknownCommand(c)
    \/ RemoveClient(c)

\* one step of the main thread
Main ==
    \/ \E c \in Conns : Accept(c)
    \/ Interrupt
    \/ Stop
    \/ StopCloseServer

Next ==
    \/ Main
    \/ \E c \in Conns : ClientClose(c)
    \/ \E c \in Conns : Handler(c)

Spec == Init /\ [][Next]_vars

\* the scheduler runs every handler thread that can take a step, and a stop()
\* that was called runs to its end
FairSpec ==
    /\ Spec
    /\ \A c \in Conns : WF_vars(Handler(c))
    /\ WF_vars(Stop)
    /\ WF_vars(StopCloseServer)

-----------------------------------------------------------------------------
(* Vocabulary of the properties.                                           *)

\* the frames of a sequence, as a set
Range(q) == {q[i] : i \in 1..Len(q)}

\* the handler of c takes this step
HandlerStep(c) == pc'[c] # pc[c] \/ nSent'[c] # nSent[c]

\* the handler of c reads frame f in this step
Reads(c, f) ==
    /\ nSent[c] < Len(script[c])
    /\ script[c][nSent[c] + 1] = f
    /\ nSent'[c] = nSent[c] + 1

\* c is in the registry under the name its handler uses
Registered(c) ==
    \E i \in 1..Len(clients) :
        clients[i].name = client_name[c] /\ clients[i].sock = c

\* c was answered ERROR:Name already taken
Rejected(c) == out[c] # <<>> /\ out[c][Len(out[c])] = kNameTaken

\* the fields of a comma-separated list
RECURSIVE CsvFields(_, _)
CsvFields(s, field) ==
    IF s = <<>> THEN {field}
    ELSE IF Head(s) = "," THEN {field} \cup CsvFields(Tail(s), <<>>)
    ELSE CsvFields(Tail(s), Append(field, Head(s)))

\* STATUS:<name> left the server
LeftNotice(name) == kSTATUS \o name \o kLeft

-----------------------------------------------------------------------------
(* C1..C10.                                                                *)

\* C1: a handler whose REGISTER was rejected because the name is taken does
\* not mutate the registry and does not close another connection, in any step
\* it takes from the rejection to its termination.
C1_RejectionLeavesRegistry ==
    [][\A c \in Conns :
          (Rejected(c) /\ HandlerStep(c)) =>
              /\ clients' = clients
              /\ \A d \in Conns \ {c} : sockOpen'[d] = sockOpen[d]]_vars

\* C2: when two connections have both been through the registration of one
\* name, with no client gone and no shutdown, exactly one was answered
\* REGISTERED, the other ERROR:Name already taken, and the registry holds the
\* name once, mapped to the one that was answered REGISTERED.
C2_OneOfTwoRegisters ==
    \A c1 \in Conns : \A c2 \in Conns \ {c1} :
        ( /\ client_name[c1] # None
          /\ client_name[c1] = client_name[c2]
          /\ pc[c1] \notin {"idle", "recv_name", "send_registered"}
          /\ pc[c2] \notin {"idle", "recv_name", "send_registered"}
          /\ peer[c1] = "open" /\ peer[c2] = "open"
          /\ mainpc = "accept" )
        => \E w \in {c1, c2} :
              LET l == CHOOSE x \in {c1, c2} : x # w
              IN  /\ kREGISTERED \in Range(out[w])
                  /\ kREGISTERED \notin Range(out[l])
                  /\ kNameTaken \in Range(out[l])
                  /\ {i \in 1..Len(clients) : clients[i].name = client_name[w]} # {}
                  /\ \A i \in 1..Len(clients) :
                        clients[i].name = client_name[w] => clients[i].sock = w

\* C3: once a registered client that left has been removed from the registry,
\* every client that remains registered and connected eventually receives
\* STATUS:<name> left the server.
C3_LeaveNoticeDelivered ==
    \A a \in Conns :
        [](( /\ pc[a] = "leave"
             /\ peer[a] = "closed"
             /\ client_name[a] \notin Keys(clients) )
           => <>(\A i \in 1..Len(clients) :
                    Delivers(clients[i].sock)
                    => LeftNotice(client_name[a]) \in Range(out[clients[i].sock])))

\* C4: every handler that has reached its cleanup eventually terminates (or the
\* process exits first).
C4_CleanupTerminates ==
    \A c \in Conns :
        [](pc[c] \in {"rm", "leave"} => <>(pc[c] = "done" \/ ~Alive))

\* C5: a BROADCAST:h read from registered client c delivers MESSAGE:<name>:h to
\* exactly the connections of the registry at that moment other than c, and
\* nothing to c or to any other connection.
C5_BroadcastSnapshot ==
    [][\A c \in Conns :
          (pc[c] = "recv" /\ Registered(c) /\ Reads(c, fBroadcast)) =>
              \A d \in Conns :
                  out'[d] =
                      IF d \in Socks(clients) \ {c} /\ Delivers(d)
                      THEN Append(out[d], kMESSAGE \o client_name[c] \o <<":", "h">>)
                      ELSE out[d]]_vars

\* C5 witness: two clients have received MESSAGE:A:h
C5_Witness ==
    Cardinality({d \in Conns : (kMESSAGE \o <<"A", ":", "h">>) \in Range(out[d])}) >= 2

\* C6: a CHAT:B:h:i read from registered client c while B is registered, both
\* connections being up, delivers MESSAGE:<name>:h:i to B's connection, then
\* MESSAGE_SENT to c, and nothing to any other connection.
C6_ChatDelivered ==
    [][\A c \in Conns :
          ( /\ pc[c] = "recv" /\ Registered(c) /\ Reads(c, fChat)
            /\ <<"B">> \in Keys(clients)
            /\ Delivers(c) /\ Delivers(Sock(clients, <<"B">>)) )
          => \A d \in Conns :
                out'[d] =
                    out[d]
                    \o (IF d = Sock(clients, <<"B">>)
                        THEN <<kMESSAGE \o client_name[c] \o <<":", "h", ":", "i">>>>
                        ELSE <<>>)
                    \o (IF d = c THEN <<kMESSAGE_SENT>> ELSE <<>>)]_vars

\* C6 witness: B has received MESSAGE:A:h:i and another client MESSAGE_SENT
C6_Witness ==
    \E b \in Conns : \E a \in Conns \ {b} :
        /\ (kMESSAGE \o <<"A", ":", "h", ":", "i">>) \in Range(out[b])
        /\ kMESSAGE_SENT \in Range(out[a])

\* C7: a CHAT:B:h:i read from registered client c while B is not registered
\* delivers ERROR:Client 'B' not found to c and nothing to any other
\* connection; the registry is unchanged and the handler stays in its loop.
C7_ChatTargetMissing ==
    [][\A c \in Conns :
          ( /\ pc[c] = "recv" /\ Registered(c) /\ Reads(c, fChat)
            /\ <<"B">> \notin Keys(clients)
            /\ Delivers(c) )
          => /\ out' = [out EXCEPT ![c] =
                          Append(@, <<"E","R","R","O","R",":","C","l","i","e","n","t",
                                      " ","'","B","'"," ","n","o","t"," ","f","o","u",
                                      "n","d">>)]
             /\ clients' = clients
             /\ pc'[c] = "recv"
             /\ sockOpen'[c]]_vars

\* C7 witness: a client has received ERROR:Client 'B' not found
C7_Witness ==
    \E c \in Conns :
        /\ pc[c] = "recv"
        /\ \E i \in 1..Len(out[c]) :
              /\ StartsWith(out[c][i], <<"E","R","R","O","R",":","C","l","i","e","n","t">>)
              /\ out[c][i][Len(out[c][i])] = "d"

\* C8: a LIST read from registered client c delivers one CLIENT_LIST frame to c
\* alone; its content is No other clients when no other name is registered,
\* and otherwise a comma-separated list whose fields are exactly the other
\* registered names; the registry is unchanged.
C8_ListSnapshot ==
    [][\A c \in Conns :
          (pc[c] = "recv" /\ Registered(c) /\ Reads(c, fList) /\ Delivers(c)) =>
              /\ clients' = clients
              /\ \A d \in Conns \ {c} : out'[d] = out[d]
              /\ Len(out'[c]) = Len(out[c]) + 1
              /\ SubSeq(out'[c], 1, Len(out[c])) = out[c]
              /\ LET reply == out'[c][Len(out'[c])]
                     content == SubSeq(reply, Len(kCLIENT_LIST) + 1, Len(reply))
                     others == Keys(clients) \ {client_name[c]}
                 IN  /\ StartsWith(reply, kCLIENT_LIST)
                     /\ IF others = {}
                        THEN content = kNoOtherClients
                        ELSE /\ CsvFields(content, <<>>) = others
                             /\ Len(SelectSeq(content, LAMBDA ch : ch = ",")) + 1
                                   = Cardinality(others) ]_vars

\* C8 witness: one client has received CLIENT_LIST:No other clients and another
\* CLIENT_LIST:A
C8_Witness ==
    /\ \E c \in Conns : (kCLIENT_LIST \o kNoOtherClients) \in Range(out[c])
    /\ \E c \in Conns : (kCLIENT_LIST \o <<"A">>) \in Range(out[c])

\* the first frame of c is a frame other than REGISTER:<name>
FirstFrameNotRegister(c) ==
    /\ Len(script[c]) >= 1
    /\ script[c][1] # fEOF
    /\ ~StartsWith(script[c][1], kREGISTER)

\* C9: a connection whose first frame is not REGISTER:<name> is answered
\* ERROR:Must register first and closed, its handler terminates, it is never in
\* the registry, and no step of its handler changes the registry.
C9_MustRegisterFirst ==
    [][\A c \in Conns :
          FirstFrameNotRegister(c) =>
              /\ c \notin Socks(clients')
              /\ HandlerStep(c) => clients' = clients
              /\ (Reads(c, script[c][1]) /\ nSent[c] = 0 /\ Delivers(c)) =>
                    /\ out'[c] = <<kMustRegister>>
                    /\ ~sockOpen'[c]
                    /\ pc'[c] = "done"]_vars

\* C9 witness: a connection was answered ERROR:Must register first and closed
\* while another client is registered
C9_Witness ==
    \E c \in Conns :
        /\ out[c] = <<kMustRegister>>
        /\ ~sockOpen[c]
        /\ pc[c] = "done"
        /\ clients # <<>>

\* C10: every registry entry maps to a connection the server has not closed and
\* whose handler has not terminated.
C10_EntriesLive ==
    \A i \in 1..Len(clients) :
        /\ sockOpen[clients[i].sock]
        /\ pc[clients[i].sock] \notin {"idle", "done"}


-----------------------------------------------------------------------------
(* C11..C20.                                                               *)

\* C11: every name that is a key of the registry is a non-empty string: a
\* REGISTER frame whose name is empty after trimming creates no entry.
C11_NamesNonEmpty ==
    \A i \in 1..Len(clients) : clients[i].name # <<>>

\* the step is one of the handler of c inside a `with self.lock:` block: the
\* registration, a routing call of the loop, broadcast_status or remove_client
WithLock(c) ==
    \/ /\ pc[c] = "recv_name"
       /\ \E f \in RecvData(c) : StartsWith(f, kREGISTER) /\ Reads(c, f)
    \/ /\ pc[c] = "recv"
       /\ \E f \in RecvData(c) :
             Dispatch(f) \in {"chat", "list", "broadcast"} /\ Reads(c, f)
    \/ /\ pc[c] \in {"join", "leave", "rm"}
       /\ pc'[c] # pc[c]

\* the step is the `with self.lock:` block of stop()
StopWithLock == mainpc = "stop" /\ mainpc' = "stop_close"

\* C12: the registry is inserted into, removed from, cleared, looked up and
\* iterated (with the sends of the iteration) only by a thread that holds the
\* lock: never while another thread holds it, and the registry changes in no
\* other step; the lock is taken only when no thread holds it.
C12_RegistryUnderLock ==
    [][ /\ \A c \in Conns : WithLock(c) => lock \in {Free, c}
        /\ StopWithLock => lock = Free
        /\ (clients' # clients \/ client_threads' # client_threads)
              => (StopWithLock \/ \E c \in Conns : WithLock(c))
        /\ (lock' # lock /\ lock' # Free) => lock = Free ]_vars

\* C12 witness: a handler holds the lock while another handler, registered, has
\* a routing call to make and waits for it
C12_Witness ==
    \E a \in Conns : \E d \in Conns \ {a} :
        /\ lock = a
        /\ pc[d] = "recv"
        /\ d \in Socks(clients)
        /\ \E f \in RecvData(d) : Dispatch(f) \in {"chat", "list", "broadcast"}

\* C13: every write of the server to a connection that is in the registry is
\* made inside a `with self.lock:` block, so that the writes to one registered
\* connection are serialized.
C13_WritesUnderLock ==
    [][\A d \in Conns :
          (out'[d] # out[d] /\ d \in Socks(clients))
          => \E c \in Conns : WithLock(c)]_vars

\* the first frame of c is REGISTER:<name> with a name that is not empty
FirstFrameRegisters(c) ==
    /\ Len(script[c]) >= 1
    /\ StartsWith(script[c][1], kREGISTER)
    /\ ParseName(script[c][1]) # <<>>

\* the handler of c has been through the registration
PastRegistration(c) ==
    nSent[c] >= 1 /\ pc[c] \notin {"idle", "recv_name", "send_registered"}

\* C14: when two connections have registered two valid distinct names, in
\* either order, with no client gone, no shutdown and no other connection
\* heard, both have been answered REGISTERED and the registry holds exactly
\* the two names, each mapped to the connection that registered it.
C14_TwoDistinctRegister ==
    \A c1 \in Conns : \A c2 \in Conns \ {c1} :
        ( /\ FirstFrameRegisters(c1) /\ FirstFrameRegisters(c2)
          /\ ParseName(script[c1][1]) # ParseName(script[c2][1])
          /\ PastRegistration(c1) /\ PastRegistration(c2)
          /\ \A d \in Conns : peer[d] = "open"
          /\ \A d \in Conns \ {c1, c2} : nSent[d] = 0
          /\ mainpc = "accept" )
        => /\ kREGISTERED \in Range(out[c1])
           /\ kREGISTERED \in Range(out[c2])
           /\ Len(clients) = 2
           /\ Keys(clients) = {ParseName(script[c1][1]), ParseName(script[c2][1])}
           /\ Sock(clients, ParseName(script[c1][1])) = c1
           /\ Sock(clients, ParseName(script[c2][1])) = c2

\* C14 witness: A and B are both registered and answered, the connection
\* accepted second having registered first
C14_Witness ==
    /\ Len(clients) = 2
    /\ clients[1] = [name |-> <<"B">>, sock |-> 2]
    /\ clients[2] = [name |-> <<"A">>, sock |-> 1]
    /\ kREGISTERED \in Range(out[1])
    /\ kREGISTERED \in Range(out[2])
    /\ pc[1] = "recv" /\ pc[2] = "recv"

\* C15: on shutdown the listening socket is closed first: the step of stop()
\* that closes the registered connections and clears the registry is taken
\* with the listening socket already closed.
C15_ListenerClosedFirst ==
    [][StopWithLock => ~listening]_vars

\* a call of stop() has returned
ShutdownCompleted == ~listening

\* C16: a shutdown that has begun completes; once it has completed every
\* connection the server accepted, registered or not, is closed by the server,
\* and the registry is empty from then on.
C16_ShutdownClosesAll ==
    /\ [](mainpc = "stop" => <>ShutdownCompleted)
    /\ [](ShutdownCompleted =>
            /\ \A c \in Conns : pc[c] # "idle" => ~sockOpen[c]
            /\ clients = <<>>)

\* the handler of b, registered, has a LIST, CHAT or BROADCAST frame to read
RoutingPending(b) ==
    /\ pc[b] = "recv"
    /\ Registered(b)
    /\ \E f \in RecvData(b) : Dispatch(f) \in {"chat", "list", "broadcast"}

\* C17: after a registered client a has disconnected, with no shutdown, a
\* LIST, CHAT or BROADCAST frame that a client b, still registered, has sent
\* does not wait forever: b's handler eventually reads and processes it.
C17_DisconnectDoesNotStall ==
    \A b \in Conns :
        [](( /\ ~sigint
             /\ \E a \in Conns \ {b} :
                   peer[a] = "closed" /\ kREGISTERED \in Range(out[a])
             /\ RoutingPending(b) )
           => <>(~RoutingPending(b)))

\* C18: for a connection that has been inserted into the registry, REGISTERED
\* is the first frame it receives: nothing is written to it before, and when
\* it has received REGISTERED that frame is its first.
C18_RegisteredFirst ==
    \A c \in Conns :
        /\ pc[c] = "send_registered" => out[c] = <<>>
        /\ kREGISTERED \in Range(out[c]) => out[c][1] = kREGISTERED

\* C19: the join broadcast of a handler whose registration of name N succeeded
\* delivers STATUS:N joined the server to every connection that is in the
\* registry at that moment and is up, N's own included, and nothing to any
\* other connection.
C19_JoinNotice ==
    [][\A c \in Conns :
          (pc[c] = "join" /\ pc'[c] # "join") =>
              \A d \in Conns :
                  out'[d] =
                      IF d \in Socks(clients) /\ Delivers(d)
                      THEN Append(out[d],
                                  kSTATUS \o client_name[c]
                                  \o <<" ","j","o","i","n","e","d"," ","t","h","e",
                                       " ","s","e","r","v","e","r">>)
                      ELSE out[d]]_vars

\* C19 witness: the connection registered as B and another connection have
\* both received STATUS:B joined the server
C19_Witness ==
    \E b \in Conns : \E d \in Conns \ {b} :
        /\ client_name[b] = <<"B">>
        /\ (kSTATUS \o <<"B">> \o kJoined) \in Range(out[b])
        /\ (kSTATUS \o <<"B">> \o kJoined) \in Range(out[d])

\* the number of separators of a frame
Colons(f) == Len(SelectSeq(f, LAMBDA ch : ch = ":"))

\* a CHAT frame with fewer than two separators
MalformedChat(f) == StartsWith(f, <<"C","H","A","T",":">>) /\ Colons(f) < 2

\* a frame that is no CHAT, LIST or BROADCAST frame
Unrecognized(f) ==
    /\ ~StartsWith(f, <<"C","H","A","T",":">>)
    /\ f # <<"L","I","S","T">>
    /\ ~StartsWith(f, <<"B","R","O","A","D","C","A","S","T",":">>)

\* C20: in the loop, on a connection that is up, a malformed CHAT frame is
\* answered ERROR:Invalid CHAT format and an unrecognized frame ERROR:Unknown
\* command; no other connection receives a frame, the registry is unchanged,
\* and the handler stays in its loop with the connection open.
C20_ErrorRepliesKeepActive ==
    [][\A c \in Conns : \A f \in RecvData(c) :
          ( /\ pc[c] = "recv" /\ Delivers(c) /\ Reads(c, f)
            /\ (MalformedChat(f) \/ Unrecognized(f)) )
          => /\ out' = [out EXCEPT ![c] =
                          Append(@, IF MalformedChat(f)
                                    THEN <<"E","R","R","O","R",":","I","n","v","a","l",
                                           "i","d"," ","C","H","A","T"," ","f","o","r",
                                           "m","a","t">>
                                    ELSE <<"E","R","R","O","R",":","U","n","k","n","o",
                                           "w","n"," ","c","o","m","m","a","n","d">>)]
             /\ clients' = clients
             /\ pc'[c] = "recv"
             /\ sockOpen'[c]]_vars

\* C20 witness: a handler in its loop has answered ERROR:Invalid CHAT format
\* and then, to a later frame, ERROR:Unknown command
C20_Witness ==
    \E c \in Conns :
        /\ pc[c] = "recv"
        /\ \E i \in 1..Len(out[c]) : \E j \in 1..Len(out[c]) :
              i < j /\ out[c][i] = kInvalidChat /\ out[c][j] = kUnknownCommand

-----------------------------------------------------------------------------
(* C21..C25.                                                               *)

\* C21: a connection is never renamed: once its handler is past the
\* registration the name it uses stays what it is in every step, and no frame
\* it reads in its loop, a further REGISTER:<other> included, changes the
\* registry.
C21_NeverRenamed ==
    [][\A c \in Conns :
          pc[c] \notin {"idle", "recv_name"} =>
              /\ client_name'[c] = client_name[c]
              /\ (pc[c] = "recv" /\ \E f \in RecvData(c) : Reads(c, f))
                    => (clients' = clients /\ client_threads' = client_threads)]_vars

\* C21 witness: the connection registered as B has sent REGISTER:C in its loop,
\* was answered ERROR:Unknown command, and its next CHAT was sent as B
C21_Witness ==
    \E c \in Conns :
        /\ nSent[c] >= 3
        /\ script[c][1] = fRegB
        /\ script[c][2] = fRegC
        /\ \E i \in 1..Len(out[c]) : \E j \in 1..Len(out[c]) :
              /\ i < j
              /\ out[c][i] = kUnknownCommand
              /\ out[c][j] = kMESSAGE \o <<"B", ":", "h", ":", "i">>
        /\ Keys(clients) = {<<"A">>, <<"B">>}

FailingRecipient(c) ==
    \E i \in 1..Len(clients) : clients[i].sock # c /\ ~Delivers(clients[i].sock)

\* C23: when a write of a message broadcast or of a join broadcast can fail
\* on one recipient, every other connection of the registry that is up (the
\* sender's excepted, for a message broadcast) still receives the frame, and
\* the broadcasting handler goes on with its loop.
C23_BroadcastFailureIsolated ==
    [][\A c \in Conns :
          /\ (pc[c] = "recv" /\ Reads(c, fBroadcast) /\ FailingRecipient(c)) =>
                /\ \A i \in 1..Len(clients) :
                      (clients[i].name # client_name[c] /\ Delivers(clients[i].sock))
                      => out'[clients[i].sock] =
                            Append(out[clients[i].sock],
                                   kMESSAGE \o client_name[c] \o <<":", "h">>)
                /\ pc'[c] = "recv"
          /\ (pc[c] = "join" /\ pc'[c] # "join" /\ FailingRecipient(c)) =>
                /\ \A d \in Socks(clients) :
                      Delivers(d) =>
                          out'[d] = Append(out[d],
                                           kSTATUS \o client_name[c]
                                           \o <<" ","j","o","i","n","e","d"," ","t","h",
                                                "e"," ","s","e","r","v","e","r">>)
                /\ pc'[c] = "recv"]_vars

\* C23 witness: A, B and C are in the registry in this order, B's client left
\* before A's broadcast, which B did not receive and C, after B in the
\* iteration, did
C23_Witness ==
    /\ Len(clients) = 3
    /\ clients[1].name = <<"A">> /\ clients[2].name = <<"B">> /\ clients[3].name = <<"C">>
    /\ peer[clients[2].sock] = "closed"
    /\ (kMESSAGE \o <<"A", ":", "h">>) \notin Range(out[clients[2].sock])
    /\ (kMESSAGE \o <<"A", ":", "h">>) \in Range(out[clients[3].sock])

\* C24: whenever a handler has terminated, the server has closed the
\* connection of that handler.
C24_TransportClosed ==
    \A c \in Conns : pc[c] = "done" => ~sockOpen[c]

\* the text of s after its n-th separator
RECURSIVE AfterColons(_, _)
AfterColons(s, n) ==
    IF n = 0 \/ s = <<>> THEN s
    ELSE AfterColons(Tail(s), IF Head(s) = ":" THEN n - 1 ELSE n)

\* the text of s before its first separator
RECURSIVE BeforeColon(_)
BeforeColon(s) ==
    IF s = <<>> \/ Head(s) = ":" THEN <<>>
    ELSE <<Head(s)>> \o BeforeColon(Tail(s))

\* C25: a CHAT frame with two separators or more is split on the first two
\* only: when the text between the first and the second is a registered name
\* whose connection is up, that connection receives MESSAGE:<sender>: followed
\* by everything after the second separator, further separators included.
C25_ChatSplitFirstTwo ==
    [][\A c \in Conns : \A f \in RecvData(c) :
          ( /\ pc[c] = "recv" /\ Reads(c, f)
            /\ StartsWith(f, <<"C","H","A","T",":">>) /\ Colons(f) >= 2
            /\ ":" \in Range(AfterColons(f, 2))
            /\ BeforeColon(AfterColons(f, 1)) \in Keys(clients)
            /\ Delivers(Sock(clients, BeforeColon(AfterColons(f, 1)))) )
          => LET t == Sock(clients, BeforeColon(AfterColons(f, 1)))
             IN  /\ Len(out'[t]) > Len(out[t])
                 /\ SubSeq(out'[t], 1, Len(out[t])) = out[t]
                 /\ out'[t][Len(out[t]) + 1] =
                       <<"M","E","S","S","A","G","E",":">> \o client_name[c]
                           \o <<":">> \o AfterColons(f, 2)
                 /\ \A d \in Conns \ {c, t} : out'[d] = out[d]]_vars

\* C25 witness: the connection registered as B has received MESSAGE:A:h:i,
\* whose content h:i holds a separator
C25_Witness ==
    \E b \in Conns :
        /\ client_name[b] = <<"B">>
        /\ <<"M","E","S","S","A","G","E",":","A",":","h",":","i">> \in Range(out[b])

=============================================================================
